---- MODULE Spec2Model ----
(***************************************************************************)
(* Model of the admin backend of the portfolio site:                       *)
(*   src/api/auth.js     credentials, sessions, password-reset tokens      *)
(*   src/api/contact.js  (second half: the content CRUD routes and the     *)
(*                        settings routes)                                 *)
(* Handlers are split at their await points; the sqlite3 connection runs   *)
(* in its default (parallel) mode, so statements issued without waiting    *)
(* for each other complete in any order.                                   *)
(***************************************************************************)
EXTENDS Integers, Sequences, FiniteSets, TLC

VARIABLES
    settings,        \* the settings table: key -> value (one row per key)
    hashedPassword,  \* auth.js: let hashedPassword (Null until initialised)
    resetTokens,     \* auth.js: const resetTokens = new Map(), in insertion order
    nextToken,       \* number of uuids handed out so far
    now,             \* Date.now()
    session,         \* req.session of each browser session
    boot,            \* initializeCredentials(): its position and the value it is writing
    env,             \* process.env, fixed for a behaviour
    req,             \* the request handler suspended in each slot
    resp,            \* the response sent most recently
    started,         \* number of requests so far that got past their first checks
    tables,          \* the content tables: table -> sequence of rows
    dbPending,       \* content statements handed to db.run, not executed yet
    nextId           \* number of row uuids handed out so far

vars == <<settings, hashedPassword, resetTokens, nextToken, now, session, boot,
          env, req, resp, started, tables, dbPending, nextId>>

authVars == <<hashedPassword, resetTokens, nextToken, now, boot, env>>
contentVars == <<tables, dbPending, nextId>>

(***************************************************************************)
(* Bounds of the model                                                     *)
(***************************************************************************)
MaxRequests == 2     \* requests in one behaviour that get past their first checks
MaxSlots == 2        \* request handlers in flight at once
MaxTokens == 2       \* reset tokens issued in one behaviour
MaxTicks == 2        \* clock advances (of 15 minutes each)
MaxRows == 2         \* rows created in one behaviour

Slots == 1..MaxSlots
Sessions == {"s1"}

(***************************************************************************)
(* Values                                                                  *)
(***************************************************************************)
\* JS null / undefined, SQL NULL
Null == "<null>"

Truthy(v) == v # Null /\ v # ""

ENV_USERNAME == "admin"

\* process.env as the deployment sets it: nothing configured, or everything
Envs == { [ADMIN_PASSWORD |-> Null, GMAIL_USER |-> Null, GMAIL_APP_PASSWORD |-> Null],
          [ADMIN_PASSWORD |-> "password1", GMAIL_USER |-> "me@gmail.com",
           GMAIL_APP_PASSWORD |-> "apppass"] }

\* 15 * 60 * 1000 ms: the token lifetime and the sweep period
TTL == 15 * 60 * 1000

Usernames == {"admin", "Admin"}
Passwords == {"changeme", "password1", "short"}
Codes == {"AAAA1111", "BBBB2222"}

\* bcryptjs.hash(p, 10) (the salt is left out: compare does not depend on it)
Hash(p) == "$2" \o p

\* bcryptjs.compare(p, h) for a string p and a string h
Compare(p, h) == h = Hash(p)

\* ENV_PASSWORD.startsWith('$2')
IsHashFormat(p) == Len(p) >= 2 /\ SubSeq(p, 1, 2) = "$2"

(***************************************************************************)
(* The settings table                                                      *)
(***************************************************************************)
\* SELECT value FROM settings WHERE key = ? (no row: null)
getDbSetting(key) == IF key \in DOMAIN settings THEN settings[key] ELSE Null

\* INSERT ... ON CONFLICT(key) DO UPDATE SET value = excluded.value
Upsert(st, key, value) ==
    [k \in (DOMAIN st) \cup {key} |-> IF k = key THEN value ELSE st[k]]

\* a faulty resolver that keeps the name the process started with (C18 must notice it)
getAdminUsernameEnv == ENV_USERNAME

\* const dbUsername = await getDbSetting('admin_username'); return dbUsername || ENV_USERNAME
getAdminUsername ==
    LET dbUsername == getDbSetting("admin_username")
    IN IF Truthy(dbUsername) THEN dbUsername ELSE ENV_USERNAME

\* getSmtpConfig: DB first, then process.env; null unless both are set
getSmtpConfig ==
    LET dbUser == getDbSetting("smtp_user")
        dbPass == getDbSetting("smtp_app_password")
        user == IF Truthy(dbUser) THEN dbUser ELSE env.GMAIL_USER
        pass == IF Truthy(dbPass) THEN dbPass ELSE env.GMAIL_APP_PASSWORD
    IN IF ~Truthy(user) \/ ~Truthy(pass) THEN Null ELSE user

(***************************************************************************)
(* The reset-token registry: a Map, kept here in its insertion order       *)
(***************************************************************************)
KeysOf(reg) == {reg[i].key : i \in 1..Len(reg)}

\* Map.prototype.set: an existing key keeps its place, a new one goes last
MapSet(reg, tok) ==
    IF tok.key \in KeysOf(reg)
    THEN [i \in 1..Len(reg) |-> IF reg[i].key = tok.key THEN tok ELSE reg[i]]
    ELSE Append(reg, tok)

\* a faulty lookup condition that forgets the expiry (C3 must notice it)
TokenMatchesAnyAge(token, resetCode, t) == token.code = resetCode /\ ~token.used

\* the condition of the lookup loop of /reset-password
TokenMatches(token, resetCode, t) ==
    token.code = resetCode /\ ~token.used /\ token.expiresAt > t

\* for (const [key, token] of resetTokens.entries()) { if (...) { found; break } }
\* the index of the first matching entry, 0 when there is none
FindToken(reg, resetCode, t) ==
    LET hits == {i \in 1..Len(reg) : TokenMatches(reg[i], resetCode, t)}
    IN IF hits = {} THEN 0 ELSE CHOOSE i \in hits : \A j \in hits : i <= j

\* a faulty sweep condition that also deletes an entry at the instant of its
\* expiry (C24 must notice it)
SweepRemovesAtExpiry(token, t) == token.expiresAt <= t \/ token.used

\* the condition under which the sweep deletes an entry
SweepRemoves(token, t) == token.expiresAt < t \/ token.used

(***************************************************************************)
(* Requests and responses                                                  *)
(***************************************************************************)
Idle == [op |-> "idle", pc |-> "idle"]

\* the response just sent; it is read off (Observe) before anything else happens
\* mail: the recipient of the mail the handler gave to mailer.sendMail, if it gave one;
\* shown: the settings object a settings read returned;
\* code: the reset code of the request it answers (reset-password only)
Reply(rq, status, body) ==
    [op |-> rq.op, status |-> status, body |-> body, mail |-> Null, shown |-> Null,
     code |-> IF rq.op = "resetPassword" THEN rq.resetCode ELSE Null]

NoResponse ==
    [op |-> "none", status |-> 0, body |-> "", mail |-> Null, shown |-> Null, code |-> Null]

Free(r) == req[r].op = "idle"

\* a new request takes the lowest free slot (the slots are interchangeable)
LowestFree(r) == Free(r) /\ \A q \in Slots : q < r => ~Free(q)

Alive == boot.pc # "dead"

\* no response is waiting to be read off
Quiet == resp = NoResponse

\* a request can arrive (one that is answered at once can always, one that
\* suspends only while fewer than MaxRequests have)
CanStart(r) == Quiet /\ Alive /\ LowestFree(r)


\* the handler in slot r sends its response and ends
Finish(r, status, body) ==
    /\ resp' = Reply(req[r], status, body)
    /\ req' = [req EXCEPT ![r] = Idle]

\* a handler that answers in the tick in which the request arrived
Answer(rq, status, body) ==
    /\ resp' = Reply(rq, status, body)
    /\ UNCHANGED <<req, started>>

\* a handler that suspends at its first await
Begin(r, rq) ==
    /\ started < MaxRequests
    /\ req' = [req EXCEPT ![r] = rq]
    /\ started' = started + 1
    /\ UNCHANGED resp

\* the handler in slot r moves on to its next await
Suspend(r, rq) ==
    /\ req' = [req EXCEPT ![r] = rq]
    /\ UNCHANGED resp

At(r, op, pc) == Quiet /\ Alive /\ req[r].op = op /\ req[r].pc = pc

\* the client has the response
Observe ==
    /\ ~Quiet
    /\ resp' = NoResponse
    /\ UNCHANGED <<settings, hashedPassword, resetTokens, nextToken, now, session, boot, env,
                   req, started, tables, dbPending, nextId>>

Anonymous == [isAdmin |-> FALSE, username |-> Null]

(***************************************************************************)
(* Startup: initializeCredentials(), started when auth.js is loaded        *)
(***************************************************************************)
\* const dbHash = await getDbSetting('admin_password_hash'); if (dbHash) {...}
\* else choose where the first hash comes from
BootReadHash ==
    /\ Quiet /\ UNCHANGED resp
    /\ boot.pc = "readHash"
    /\ LET dbHash == getDbSetting("admin_password_hash")
       IN IF Truthy(dbHash)
          THEN /\ hashedPassword' = dbHash
               /\ boot' = [pc |-> "readUsername", value |-> Null]
          ELSE IF ~Truthy(env.ADMIN_PASSWORD)
          THEN /\ boot' = [pc |-> "hashing", value |-> "changeme"]
               /\ UNCHANGED hashedPassword
          ELSE IF IsHashFormat(env.ADMIN_PASSWORD)
          THEN /\ hashedPassword' = env.ADMIN_PASSWORD
               /\ boot' = [pc |-> "persistHash", value |-> env.ADMIN_PASSWORD]
          ELSE /\ boot' = [pc |-> "hashing", value |-> env.ADMIN_PASSWORD]
               /\ UNCHANGED hashedPassword
    /\ UNCHANGED <<settings, resetTokens, nextToken, now, session, env, req, started, contentVars>>

\* hashedPassword = await bcryptjs.hash(...); then setDbSetting is called with it
BootHashed ==
    /\ Quiet /\ UNCHANGED resp
    /\ boot.pc = "hashing"
    /\ hashedPassword' = Hash(boot.value)
    /\ boot' = [pc |-> "persistHash", value |-> Hash(boot.value)]
    /\ UNCHANGED <<settings, resetTokens, nextToken, now, session, env, req, started, contentVars>>

\* process.exit(1), or an unhandled rejection: the process is gone
Die ==
    /\ UNCHANGED resp
    /\ boot' = [pc |-> "dead", value |-> Null]
    /\ req' = [r \in Slots |-> Idle]
    /\ UNCHANGED <<settings, hashedPassword, resetTokens, nextToken, now, session, env,
                   started, contentVars>>

\* await setDbSetting('admin_password_hash', hashedPassword), the write done or failed
BootPersistHash(ok) ==
    /\ Quiet /\ UNCHANGED resp
    /\ boot.pc = "persistHash"
    /\ IF ok
       THEN /\ settings' = Upsert(settings, "admin_password_hash", boot.value)
            /\ boot' = [pc |-> "readUsername", value |-> Null]
            /\ UNCHANGED <<hashedPassword, resetTokens, nextToken, now, session, env, req,
                           started, contentVars>>
       ELSE Die

\* const dbUsername = await getDbSetting('admin_username'); if (!dbUsername) ...
BootReadUsername ==
    /\ Quiet /\ UNCHANGED resp
    /\ boot.pc = "readUsername"
    /\ boot' = IF Truthy(getDbSetting("admin_username"))
               THEN [pc |-> "done", value |-> Null]
               ELSE [pc |-> "persistUsername", value |-> ENV_USERNAME]
    /\ UNCHANGED <<settings, hashedPassword, resetTokens, nextToken, now, session, env,
                   req, started, contentVars>>

\* await setDbSetting('admin_username', ENV_USERNAME), the write done or failed
BootPersistUsername(ok) ==
    /\ Quiet /\ UNCHANGED resp
    /\ boot.pc = "persistUsername"
    /\ IF ok
       THEN /\ settings' = Upsert(settings, "admin_username", boot.value)
            /\ boot' = [pc |-> "done", value |-> Null]
            /\ UNCHANGED <<hashedPassword, resetTokens, nextToken, now, session, env, req,
                           started, contentVars>>
       ELSE Die

\* Date.now() moves on by 15 minutes (the clock is read against token times only, so
\* it is left alone while there is no token)
Tick ==
    /\ Quiet /\ UNCHANGED resp
    /\ now < MaxTicks * TTL
    /\ resetTokens # <<>> \/ \E r \in Slots : req[r].op = "resetPassword"
    /\ now' = now + TTL
    /\ UNCHANGED <<settings, hashedPassword, resetTokens, nextToken, session, boot, env,
                   req, started, contentVars>>

\* setInterval(() => { for (...) if (token.expiresAt < now || token.used) delete }, ...)
Sweep ==
    /\ Quiet /\ UNCHANGED resp
    /\ Alive
    /\ resetTokens' = SelectSeq(resetTokens, LAMBDA token : ~SweepRemoves(token, now))
    /\ UNCHANGED <<settings, hashedPassword, nextToken, now, session, boot, env, req, started, contentVars>>

(***************************************************************************)
(* auth.js: login and logout                                               *)
(***************************************************************************)
\* a faulty username check that lets every name pass (C10 must notice it)
UsernameMatchesAny(username, adminUsername) == TRUE

\* if (username !== adminUsername) return 401
UsernameMatches(username, adminUsername) == username = adminUsername

\* router.post('/login'): the request arrives, getAdminUsername() resolves, and on a
\* matching username bcryptjs.compare(password, hashedPassword) is called
Login(r, s, username, password) ==
    /\ CanStart(r)
    /\ LET rq == [op |-> "login", pc |-> "compare", s |-> s,
                  username |-> username, password |-> password,
                  adminUsername |-> getAdminUsername, hash |-> hashedPassword]
       IN IF ~UsernameMatches(username, rq.adminUsername)
          THEN Answer(rq, 401, "Invalid credentials")
          ELSE Begin(r, rq)
    /\ UNCHANGED <<settings, session, authVars, contentVars>>

\* const isValid = await bcryptjs.compare(...): it throws on a password or a hash
\* that is no string
LoginCompared(r) ==
    /\ At(r, "login", "compare")
    /\ IF req[r].hash = Null \/ req[r].password = Null
       THEN Finish(r, 500, "Authentication error") /\ UNCHANGED session
       ELSE IF ~Compare(req[r].password, req[r].hash)
       THEN Finish(r, 401, "Invalid credentials") /\ UNCHANGED session
       ELSE /\ session' = [session EXCEPT
                              ![req[r].s] = [isAdmin |-> TRUE, username |-> req[r].username]]
            /\ Finish(r, 200, "Logged in successfully")
    /\ UNCHANGED <<settings, started, authVars, contentVars>>

\* router.post('/logout'): req.session.destroy and its callback (it changes the
\* session, so it counts among the MaxRequests requests)
Logout(r, s) ==
    /\ CanStart(r)
    /\ started < MaxRequests
    /\ started' = started + 1
    /\ session' = [session EXCEPT ![s] = Anonymous]
    /\ resp' = Reply([op |-> "logout"], 200, "Logged out successfully")
    /\ UNCHANGED <<settings, req, authVars, contentVars>>

(***************************************************************************)
(* auth.js: change password                                                *)
(***************************************************************************)
\* a faulty length check that lets every password pass (C8 must notice it)
TooShortNever(newPassword) == FALSE

\* if (newPassword.length < 8) return 400
TooShort(newPassword) == Len(newPassword) < 8

\* if (currentPassword === newPassword) return 400
SamePassword(currentPassword, newPassword) == currentPassword = newPassword

\* router.post('/change-password'), up to the call of bcryptjs.compare
ChangePassword(r, s, currentPassword, newPassword) ==
    /\ CanStart(r)
    /\ LET rq == [op |-> "changePassword", pc |-> "compare", s |-> s,
                  isAdmin |-> session[s].isAdmin,
                  currentPassword |-> currentPassword, newPassword |-> newPassword,
                  hash |-> hashedPassword, value |-> Null]
       IN IF ~session[s].isAdmin
          THEN Answer(rq, 401, "Not authenticated")
          ELSE IF ~Truthy(currentPassword) \/ ~Truthy(newPassword)
          THEN Answer(rq, 400, "Passwords are required")
          ELSE IF TooShort(newPassword)
          THEN Answer(rq, 400, "Password must be at least 8 characters long")
          ELSE IF SamePassword(currentPassword, newPassword)
          THEN Answer(rq, 400, "New password must be different from current password")
          ELSE Begin(r, rq)
    /\ UNCHANGED <<settings, session, authVars, contentVars>>


\* const isValid = await bcryptjs.compare(currentPassword, hashedPassword), which throws
\* on a hash that is no string; then hashedPassword = await bcryptjs.hash(newPassword, 10)
\* and setDbSetting(..., hashedPassword) is called. (The compare works on the values it
\* was called with, so its await is folded into this step.)
ChangePasswordHashed(r) ==
    /\ At(r, "changePassword", "compare")
    /\ IF req[r].hash = Null
       THEN Finish(r, 500, "Error changing password") /\ UNCHANGED hashedPassword
       ELSE IF ~Compare(req[r].currentPassword, req[r].hash)
       THEN Finish(r, 401, "Current password is incorrect") /\ UNCHANGED hashedPassword
       ELSE /\ hashedPassword' = Hash(req[r].newPassword)
            /\ Suspend(r, [req[r] EXCEPT !.pc = "persist",
                                         !.value = Hash(req[r].newPassword)])
    /\ UNCHANGED <<settings, session, started, resetTokens, nextToken, now, boot, env, contentVars>>

\* await setDbSetting('admin_password_hash', hashedPassword), the write done or failed
ChangePasswordPersisted(r, ok) ==
    /\ At(r, "changePassword", "persist")
    /\ IF ok
       THEN /\ settings' = Upsert(settings, "admin_password_hash", req[r].value)
            /\ Finish(r, 200, "Password changed successfully")
       ELSE /\ Finish(r, 500, "Error changing password")
            /\ UNCHANGED settings
    /\ UNCHANGED <<session, started, authVars, contentVars>>

(***************************************************************************)
(* auth.js: change username                                                *)
(***************************************************************************)
RECURSIVE TrimStart(_)
TrimStart(str) ==
    IF Len(str) > 0 /\ SubSeq(str, 1, 1) = " " THEN TrimStart(SubSeq(str, 2, Len(str)))
    ELSE str

RECURSIVE TrimEnd(_)
TrimEnd(str) ==
    IF Len(str) > 0 /\ SubSeq(str, Len(str), Len(str)) = " "
    THEN TrimEnd(SubSeq(str, 1, Len(str) - 1))
    ELSE str

\* String.prototype.trim (of the blanks the inputs here hold)
Trim(str) == TrimEnd(TrimStart(str))

UsernameChars ==
    {"a","b","c","d","e","f","g","h","i","j","k","l","m","n","o","p","q","r","s","t","u",
     "v","w","x","y","z","A","B","C","D","E","F","G","H","I","J","K","L","M","N","O","P",
     "Q","R","S","T","U","V","W","X","Y","Z","0","1","2","3","4","5","6","7","8","9",
     ".","_","@","-"}

\* /^[a-zA-Z0-9._@-]+$/.test(trimmed)
UsernamePattern(trimmed) ==
    /\ Len(trimmed) > 0
    /\ \A i \in 1..Len(trimmed) : SubSeq(trimmed, i, i) \in UsernameChars

\* the three checks of the trimmed name; "" when it passes
UsernameError(trimmed) ==
    IF Len(trimmed) < 3 THEN "Username must be at least 3 characters"
    ELSE IF Len(trimmed) > 50 THEN "Username must be 50 characters or less"
    ELSE IF ~UsernamePattern(trimmed)
    THEN "Username can only contain letters, numbers, dots, hyphens, underscores, and @"
    ELSE ""

\* router.post('/change-username'), up to the call of bcryptjs.compare
ChangeUsername(r, s, currentPassword, newUsername) ==
    /\ CanStart(r)
    /\ LET rq == [op |-> "changeUsername", pc |-> "persist", s |-> s,
                  isAdmin |-> session[s].isAdmin,
                  currentPassword |-> currentPassword, newUsername |-> newUsername,
                  trimmed |-> IF Truthy(newUsername) THEN Trim(newUsername) ELSE Null,
                  hash |-> hashedPassword]
       IN IF ~session[s].isAdmin
          THEN Answer(rq, 401, "Not authenticated")
          ELSE IF ~Truthy(currentPassword) \/ ~Truthy(newUsername)
          THEN Answer(rq, 400, "Current password and new username are required")
          ELSE IF UsernameError(rq.trimmed) # ""
          THEN Answer(rq, 400, UsernameError(rq.trimmed))
          ELSE Begin(r, rq)
    /\ UNCHANGED <<settings, session, authVars, contentVars>>


\* const isValid = await bcryptjs.compare(currentPassword, hashedPassword) (folded in, as
\* above); await setDbSetting('admin_username', trimmed), the write done or failed;
\* req.session.username = trimmed
ChangeUsernamePersisted(r, ok) ==
    /\ At(r, "changeUsername", "persist")
    /\ IF req[r].hash = Null
       THEN Finish(r, 500, "Error changing username") /\ UNCHANGED <<settings, session>>
       ELSE IF ~Compare(req[r].currentPassword, req[r].hash)
       THEN Finish(r, 401, "Password is incorrect") /\ UNCHANGED <<settings, session>>
       ELSE IF ok
       THEN /\ settings' = Upsert(settings, "admin_username", req[r].trimmed)
            /\ session' = [session EXCEPT ![req[r].s].username = req[r].trimmed]
            /\ Finish(r, 200, "Username changed to \"" \o req[r].trimmed \o "\"")
       ELSE /\ Finish(r, 500, "Error changing username")
            /\ UNCHANGED <<settings, session>>
    /\ UNCHANGED <<started, authVars, contentVars>>

(***************************************************************************)
(* auth.js: password reset                                                 *)
(***************************************************************************)
GenericResetMessage ==
    "If the username exists, a reset code has been sent to the recovery email."

\* router.post('/request-password-reset'), up to the reads of the mail configuration:
\* the username check, and for the admin username a new token in the registry
RequestReset(r, username, resetCode) ==
    /\ CanStart(r)
    /\ LET rq == [op |-> "requestReset", pc |-> "mailConfig",
                  username |-> username, adminUsername |-> getAdminUsername,
                  resetCode |-> IF Truthy(username) /\ username = getAdminUsername
                                THEN resetCode ELSE Null]
       IN IF ~Truthy(username)
          THEN Answer(rq, 400, "Username is required") /\ UNCHANGED <<resetTokens, nextToken>>
          ELSE IF ~UsernameMatches(username, rq.adminUsername)
          THEN Answer(rq, 200, GenericResetMessage) /\ UNCHANGED <<resetTokens, nextToken>>
          ELSE /\ nextToken < MaxTokens
               /\ nextToken' = nextToken + 1
               /\ resetTokens' = MapSet(resetTokens,
                      [key |-> nextToken + 1, code |-> resetCode, username |-> username,
                       createdAt |-> now, expiresAt |-> now + TTL, used |-> FALSE])
               /\ Begin(r, rq)
    /\ UNCHANGED <<settings, session, hashedPassword, now, boot, env,
                   contentVars>>



\* router.post('/reset-password'), up to the call of bcryptjs.hash: the input checks
\* and the lookup of a live token with the code
ResetPassword(r, resetCode, newPassword) ==
    /\ CanStart(r)
    /\ LET found == FindToken(resetTokens, resetCode, now)
           rq == [op |-> "resetPassword", pc |-> "hash",
                  resetCode |-> resetCode, newPassword |-> newPassword, at |-> now,
                  foundToken |-> IF found = 0 THEN Null ELSE resetTokens[found],
                  value |-> Null]
       IN IF ~Truthy(resetCode) \/ ~Truthy(newPassword)
          THEN Answer(rq, 400, "Reset code and new password are required")
          ELSE IF TooShort(newPassword)
          THEN Answer(rq, 400, "Password must be at least 8 characters long")
          ELSE IF found = 0
          THEN Answer(rq, 401, "Invalid or expired reset code")
          ELSE Begin(r, rq)
    /\ UNCHANGED <<settings, session, authVars, contentVars>>

\* hashedPassword = await bcryptjs.hash(newPassword, 10); setDbSetting(..., hashedPassword)
ResetPasswordHashed(r) ==
    /\ At(r, "resetPassword", "hash")
    /\ hashedPassword' = Hash(req[r].newPassword)
    /\ Suspend(r, [req[r] EXCEPT !.pc = "persist", !.value = Hash(req[r].newPassword)])
    /\ UNCHANGED <<settings, session, started, resetTokens, nextToken, now, boot, env, contentVars>>

\* a faulty completion that does not mark the token used (C2 must notice it)
ResetPasswordPersistedUnmarked(r, ok) ==
    /\ At(r, "resetPassword", "persist")
    /\ IF ok
       THEN /\ settings' = Upsert(settings, "admin_password_hash", req[r].value)
            /\ Finish(r, 200, "Password reset successfully")
       ELSE /\ Finish(r, 500, "Error resetting password")
            /\ UNCHANGED settings
    /\ UNCHANGED <<session, started, authVars, contentVars>>

\* await setDbSetting(...), the write done or failed; then
\* foundToken.used = true; resetTokens.set(foundKey, foundToken)
ResetPasswordPersisted(r, ok) ==
    /\ At(r, "resetPassword", "persist")
    /\ IF ok
       THEN /\ settings' = Upsert(settings, "admin_password_hash", req[r].value)
            /\ resetTokens' = MapSet(resetTokens, [req[r].foundToken EXCEPT !.used = TRUE])
            /\ Finish(r, 200, "Password reset successfully")
       ELSE /\ Finish(r, 500, "Error resetting password")
            /\ UNCHANGED <<settings, resetTokens>>
    /\ UNCHANGED <<session, started, hashedPassword, nextToken, now, boot, env, contentVars>>

\* the positions of an @ that two characters or more precede
MaskableAt(str) == {i \in 3..Len(str) : SubSeq(str, i, i) = "@"}

\* recipientEmail.replace(/(.{2})(.*)(@.*)/, '$1***$3')
maskedEmail(str) ==
    IF MaskableAt(str) = {} THEN str
    ELSE LET at == CHOOSE i \in MaskableAt(str) : \A j \in MaskableAt(str) : j <= i
         IN SubSeq(str, 1, 2) \o "***" \o SubSeq(str, at, Len(str))

\* getTransporter(), getSmtpConfig(), getDbSetting('recovery_email'); then either
\* await mailer.sendMail(...), the mail accepted or refused, or the configuration error
RequestResetMailed(r, ok) ==
    /\ At(r, "requestReset", "mailConfig")
    /\ LET smtpUser == getSmtpConfig
           recoveryEmail == getDbSetting("recovery_email")
           recipientEmail == IF Truthy(recoveryEmail) THEN recoveryEmail ELSE smtpUser
       IN /\ req' = [req EXCEPT ![r] = Idle]
          /\ resp' = IF smtpUser # Null /\ Truthy(recipientEmail)
                     THEN [Reply(req[r], IF ok THEN 200 ELSE 500,
                                 IF ok THEN "Reset code sent to " \o maskedEmail(recipientEmail)
                                 ELSE "Failed to send reset email. Check SMTP settings in Admin > Settings.")
                           EXCEPT !.mail = recipientEmail]
                     ELSE Reply(req[r], 500,
                                "Cannot send reset email. "
                                \o (IF smtpUser = Null THEN "SMTP not configured." 
                                    ELSE "No recovery email set.")
                                \o " Go to Admin > Settings > Email Configuration.")
    /\ UNCHANGED <<settings, session, started, authVars, contentVars>>

(***************************************************************************)
(* contact.js (content routes): the settings routes                        *)
(***************************************************************************)
\* a faulty gate that lets every session pass (C5 must notice it)
requireAuthOpen(s) == TRUE

\* const requireAuth = (req, res, next) => { if (!req.session.isAdmin) return 401 ... }
requireAuth(s) == session[s].isAdmin

SENSITIVE_KEYS ==
    {"admin_password_hash", "admin_username", "smtp_user", "smtp_app_password",
     "recovery_email"}

\* a faulty filter that forgets the recovery address (C4 must notice it)
publicSettingsLeaky(st) ==
    [k \in (DOMAIN st) \ {"admin_password_hash", "admin_username", "smtp_user",
                          "smtp_app_password"} |-> st[k]]

\* router.get('/settings'): rows.forEach(row => { if (!SENSITIVE_KEYS.includes(row.key)) ... })
publicSettings(st) == [k \in (DOMAIN st) \ SENSITIVE_KEYS |-> st[k]]

\* the fixed string shown for a set SMTP password (sixteen bullets in the source)
Mask == "****************"

\* a faulty read that skips the hash and shows the SMTP password (C15 must notice it)
adminSettingsUnmasked(st) == [k \in (DOMAIN st) \ {"admin_password_hash"} |-> st[k]]

\* router.get('/settings/secure'): the hash is skipped, a set SMTP password is masked
adminSettings(st) ==
    [k \in (DOMAIN st) \ {"admin_password_hash"} |->
        IF k = "smtp_app_password" /\ Truthy(st[k]) THEN Mask ELSE st[k]]

\* router.get('/settings') (public)
GetSettings(r, s) ==
    /\ CanStart(r)
    /\ resp' = [Reply([op |-> "getSettings"], 200, "settings")
                EXCEPT !.shown = publicSettings(settings)]
    /\ UNCHANGED <<req, started>>
    /\ UNCHANGED <<settings, session, authVars, contentVars>>

\* router.get('/settings/secure', requireAuth, ...)
GetSettingsSecure(r, s) ==
    /\ CanStart(r)
    /\ resp' = IF ~requireAuth(s)
               THEN Reply([op |-> "getSettingsSecure"], 401, "Unauthorized")
               ELSE [Reply([op |-> "getSettingsSecure"], 200, "settings")
                     EXCEPT !.shown = adminSettings(settings)]
    /\ UNCHANGED <<req, started>>
    /\ UNCHANGED <<settings, session, authVars, contentVars>>

\* a faulty key check that forbids nothing (C6 must notice it)
ForbiddenKeyNone(key) == FALSE

\* if (req.params.key === 'admin_password_hash') return 403
ForbiddenKey(key) == key = "admin_password_hash"

\* router.put('/settings/:key', requireAuth, ...), up to the call of db.run
PutSetting(r, s, key, value) ==
    /\ CanStart(r)
    /\ LET rq == [op |-> "putSetting", pc |-> "run", s |-> s,
                  isAdmin |-> session[s].isAdmin, key |-> key, value |-> value]
       IN IF ~requireAuth(s)
          THEN Answer(rq, 401, "Unauthorized")
          ELSE IF ForbiddenKey(key)
          THEN Answer(rq, 403, "Cannot modify password hash directly")
          ELSE Begin(r, rq)
    /\ UNCHANGED <<settings, session, authVars, contentVars>>

\* the upsert of PUT /settings/:key done or failed, and its callback
PutSettingDone(r, ok) ==
    /\ At(r, "putSetting", "run")
    /\ IF ok
       THEN /\ settings' = Upsert(settings, req[r].key, req[r].value)
            /\ Finish(r, 200, "success")
       ELSE /\ Finish(r, 500, "error")
            /\ UNCHANGED settings
    /\ UNCHANGED <<session, started, authVars, contentVars>>

(***************************************************************************)
(* contact.js (content routes): values, validation and the table schema    *)
(***************************************************************************)
Tables == {"experience", "education", "projects", "blog", "skills"}

\* JSON values of a request body and SQL values of a row, with their type
\* (n: the number, s: the string, a: the array; the fields of the other types are blank)
Value(t, n, x, q) == [t |-> t, n |-> n, s |-> x, a |-> q]
Num(n) == Value("number", n, "", << >>)
Str(x) == Value("string", 0, x, << >>)
Arr(q) == Value("array", 0, "", q)
Undefined == Value("undefined", 0, "", << >>)
SqlNull == Value("null", 0, "", << >>)

\* data[field]
Field(data, field) == IF field \in DOMAIN data THEN data[field] ELSE Undefined

\* if (value)
IsTruthy(value) ==
    CASE value.t = "number" -> value.n # 0
      [] value.t = "string" -> value.s # ""
      [] value.t = "array" -> TRUE
      [] OTHER -> FALSE

\* Array.isArray(value) ? 'array' : typeof value
actualType(value) == value.t

allowedColumns(tableName) ==
    CASE tableName = "experience" ->
           {"company", "role", "period", "description", "badge", "order_num", "hidden"}
      [] tableName = "education" ->
           {"institution", "degree", "period", "description", "badge", "order_num", "hidden"}
      [] tableName = "projects" ->
           {"title", "description", "tags", "image_url", "project_url", "github_url",
            "featured", "order_num", "hidden"}
      [] tableName = "blog" ->
           {"title", "content", "excerpt", "tags", "image_url", "read_time", "featured",
            "published", "order_num", "hidden"}
      [] tableName = "skills" -> {"category", "skills", "hidden"}

Rule(field, type, required, maxLength, label) ==
    [field |-> field, type |-> type, required |-> required, maxLength |-> maxLength,
     label |-> label]

\* the rules of a table, in the order Object.entries gives them (maxLength 0: none)
validationRules(tableName) ==
    CASE tableName = "experience" ->
           << Rule("company", "string", TRUE, 100, "Company"),
              Rule("role", "string", TRUE, 100, "Role"),
              Rule("period", "string", TRUE, 50, "Period"),
              Rule("description", "string", FALSE, 2000, "description"),
              Rule("badge", "string", FALSE, 20, "badge") >>
      [] tableName = "education" ->
           << Rule("institution", "string", TRUE, 100, "institution"),
              Rule("degree", "string", TRUE, 100, "degree"),
              Rule("period", "string", TRUE, 50, "period"),
              Rule("description", "string", FALSE, 2000, "description"),
              Rule("badge", "string", FALSE, 20, "badge") >>
      [] tableName = "projects" ->
           << Rule("title", "string", TRUE, 200, "title"),
              Rule("description", "string", FALSE, 2000, "description"),
              Rule("tags", "array", FALSE, 0, "tags"),
              Rule("image_url", "string", FALSE, 500, "image_url"),
              Rule("project_url", "string", FALSE, 500, "project_url"),
              Rule("github_url", "string", FALSE, 500, "github_url"),
              Rule("featured", "number", FALSE, 0, "featured") >>
      [] tableName = "blog" ->
           << Rule("title", "string", TRUE, 200, "title"),
              Rule("content", "string", TRUE, 50000, "content"),
              Rule("excerpt", "string", FALSE, 500, "excerpt"),
              Rule("tags", "array", FALSE, 0, "tags"),
              Rule("image_url", "string", FALSE, 500, "image_url"),
              Rule("read_time", "number", FALSE, 0, "read_time"),
              Rule("featured", "number", FALSE, 0, "featured"),
              Rule("published", "number", FALSE, 0, "published") >>
      [] tableName = "skills" ->
           << Rule("category", "string", TRUE, 100, "category") >>

\* the checks validateInput makes for one field: its message, or Null
\* (no rule has a minLength, so that check never applies)
FieldError(value, config) ==
    IF config.required
       /\ (~IsTruthy(value) \/ (value.t = "string" /\ Trim(value.s) = ""))
    THEN config.label \o " is required"
    ELSE IF IsTruthy(value) /\ actualType(value) # config.type
    THEN config.label \o " must be of type " \o config.type
    ELSE IF IsTruthy(value) /\ value.t = "string" /\ config.maxLength > 0
            /\ Len(value.s) > config.maxLength
    THEN config.label \o " must be less than " \o ToString(config.maxLength)
         \o " characters"
    ELSE Null

\* a faulty validation that lets every payload pass (C20 must notice it)
validateInputNone(data, fields) == Null

\* validateInput(data, fields): the message of the first field that fails, or Null
validateInput(data, fields) ==
    LET bad == {i \in 1..Len(fields) :
                  FieldError(Field(data, fields[i].field), fields[i]) # Null}
    IN IF bad = {} THEN Null
       ELSE LET i == CHOOSE j \in bad : \A k \in bad : j <= k
            IN FieldError(Field(data, fields[i].field), fields[i])

(***************************************************************************)
(* The content tables of db.js and the statements the routes run on them   *)
(***************************************************************************)
\* the columns of a table besides id; created_at is the position of the row
Columns(tableName) == allowedColumns(tableName)

IntegerColumns == {"order_num", "hidden", "featured", "published", "read_time"}

\* the DEFAULT of a column
ColumnDefault(tableName, column) ==
    CASE column \in {"order_num", "hidden", "featured", "published"} -> Num(0)
      [] column = "read_time" -> Num(5)
      [] column = "badge" -> Str(IF tableName = "experience" THEN "work" ELSE "education")
      [] OTHER -> SqlNull

\* JSON.stringify of a string, without its quotes: a quote and a backslash are escaped
RECURSIVE Escape(_)
Escape(str) ==
    IF Len(str) = 0 THEN ""
    ELSE LET c == SubSeq(str, 1, 1)
         IN (IF c = "\"" \/ c = "\\" THEN "\\" \o c ELSE c)
            \o Escape(SubSeq(str, 2, Len(str)))

RECURSIVE JoinQuoted(_)
JoinQuoted(q) ==
    IF Len(q) = 0 THEN ""
    ELSE IF Len(q) = 1 THEN "\"" \o Escape(q[1]) \o "\""
    ELSE "\"" \o Escape(q[1]) \o "\"," \o JoinQuoted(Tail(q))

\* JSON.stringify of an array of strings
Stringify(q) == "[" \o JoinQuoted(q) \o "]"

\* JSON.parse, from the character after the opening quote of a string: the
\* string up to its closing quote with the escapes undone, and the position
\* after it
RECURSIVE ParseString(_, _, _)
ParseString(text, pos, acc) ==
    IF pos > Len(text) THEN [ok |-> FALSE, str |-> "", next |-> pos]
    ELSE LET c == SubSeq(text, pos, pos)
         IN IF c = "\"" THEN [ok |-> TRUE, str |-> acc, next |-> pos + 1]
            ELSE IF c = "\\"
            THEN IF pos + 1 <= Len(text)
                    /\ SubSeq(text, pos + 1, pos + 1) \in {"\"", "\\"}
                 THEN ParseString(text, pos + 2, acc \o SubSeq(text, pos + 1, pos + 1))
                 ELSE [ok |-> FALSE, str |-> "", next |-> pos]
            ELSE ParseString(text, pos + 1, acc \o c)

\* JSON.parse, from the first character of an element of an array of strings
RECURSIVE ParseElements(_, _, _)
ParseElements(text, pos, acc) ==
    IF pos > Len(text) \/ SubSeq(text, pos, pos) # "\""
    THEN [ok |-> FALSE, value |-> Undefined]
    ELSE LET e == ParseString(text, pos + 1, "")
         IN IF ~e.ok \/ e.next > Len(text) THEN [ok |-> FALSE, value |-> Undefined]
            ELSE IF SubSeq(text, e.next, e.next) = "]"
            THEN IF e.next = Len(text)
                 THEN [ok |-> TRUE, value |-> Arr(Append(acc, e.str))]
                 ELSE [ok |-> FALSE, value |-> Undefined]
            ELSE IF SubSeq(text, e.next, e.next) = ","
            THEN ParseElements(text, e.next + 1, Append(acc, e.str))
            ELSE [ok |-> FALSE, value |-> Undefined]

Digits == <<"0", "1", "2", "3", "4", "5", "6", "7", "8", "9">>

\* the number a text of decimal digits without a leading zero writes, or -1
RECURSIVE ParseDigits(_, _)
ParseDigits(text, acc) ==
    IF Len(text) = 0 THEN acc
    ELSE LET ds == {d \in 1..10 : Digits[d] = SubSeq(text, 1, 1)}
         IN IF ds = {} THEN -1
            ELSE ParseDigits(SubSeq(text, 2, Len(text)), 10 * acc + (CHOOSE d \in ds : TRUE) - 1)

\* JSON.parse(text) for the texts a tags or skills column can hold here: an
\* array of strings or a number parses, any other text throws (ok is FALSE)
JSONparse(text) ==
    IF text = "[]" THEN [ok |-> TRUE, value |-> Arr(<< >>)]
    ELSE IF Len(text) >= 2 /\ SubSeq(text, 1, 1) = "["
    THEN ParseElements(text, 2, << >>)
    ELSE IF Len(text) > 0 /\ (Len(text) = 1 \/ SubSeq(text, 1, 1) # "0")
            /\ ParseDigits(text, 0) >= 0
    THEN [ok |-> TRUE, value |-> Num(ParseDigits(text, 0))]
    ELSE [ok |-> FALSE, value |-> Undefined]

\* the value a statement stores for a body value: an array under tags or skills is
\* stringified; a number bound to a TEXT column is stored as its text
Bind(key, value) ==
    IF key \in {"tags", "skills"} /\ value.t = "array"
    THEN Str(Stringify(value.a))
    ELSE IF value.t = "number" /\ key \notin IntegerColumns
    THEN Str(ToString(value.n))
    ELSE value

\* a faulty selection that leaves out id only (C19 must notice it)
WrittenKeysAll(tableName, data) == (DOMAIN data) \ {"id"}

\* Object.keys(data) without id and without what the whitelist does not hold
WrittenKeys(tableName, data) ==
    {key \in DOMAIN data : key # "id" /\ key \in allowedColumns(tableName)}

\* const hasFeatured = (tableName === 'projects' || tableName === 'blog') && data.featured === 1
hasFeatured(tableName, data) ==
    /\ tableName \in {"projects", "blog"}
    /\ Field(data, "featured") = Num(1)

RowId(n) == "r" \o ToString(n)

\* UPDATE t SET featured = 0 WHERE featured = 1 [AND id != ?]
ClearStatement(tableName, exceptId) ==
    [kind |-> "clear", op |-> IF exceptId = Null THEN "create" ELSE "update",
     table |-> tableName, id |-> exceptId, sets |-> << >>]

\* INSERT INTO t (id, ...) VALUES (?, ...)
InsertStatement(tableName, id, data) ==
    [kind |-> "insert", op |-> "create", table |-> tableName, id |-> id,
     sets |-> [key \in WrittenKeys(tableName, data) |-> Bind(key, data[key])]]

\* UPDATE t SET ... WHERE id = ?
UpdateStatement(tableName, id, data) ==
    [kind |-> "update", op |-> "update", table |-> tableName, id |-> id,
     sets |-> [key \in WrittenKeys(tableName, data) |-> Bind(key, data[key])]]

\* DELETE FROM t WHERE id = ?
DeleteStatement(tableName, id) ==
    [kind |-> "delete", op |-> "delete", table |-> tableName, id |-> id, sets |-> << >>]

\* UPDATE t SET hidden = CASE WHEN hidden = 0 THEN 1 ELSE 0 END WHERE id = ?
ToggleStatement(tableName, id) ==
    [kind |-> "toggle", op |-> "toggleHidden", table |-> tableName, id |-> id, sets |-> << >>]

\* UPDATE t SET  WHERE id = ? is not a statement SQLite accepts
WellFormed(stmt) == stmt.kind = "update" => DOMAIN stmt.sets # {}

RECURSIVE Without(_, _)
Without(rows, id) ==
    IF rows = << >> THEN << >>
    ELSE IF Head(rows).id = id THEN Without(Tail(rows), id)
    ELSE <<Head(rows)>> \o Without(Tail(rows), id)

IsFeatured(row) == "featured" \in DOMAIN row.cols /\ row.cols["featured"] = Num(1)

\* the rows of the table after the statement has run
Execute(stmt, rows) ==
    CASE stmt.kind = "clear" ->
           [i \in 1..Len(rows) |->
              IF IsFeatured(rows[i]) /\ rows[i].id # stmt.id
              THEN [rows[i] EXCEPT !.cols["featured"] = Num(0)]
              ELSE rows[i]]
      [] stmt.kind = "insert" ->
           Append(rows,
                  [id |-> stmt.id,
                   cols |-> [c \in Columns(stmt.table) |->
                               IF c \in DOMAIN stmt.sets THEN stmt.sets[c]
                               ELSE ColumnDefault(stmt.table, c)]])
      [] stmt.kind = "update" ->
           [i \in 1..Len(rows) |->
              IF rows[i].id = stmt.id
              THEN [rows[i] EXCEPT !.cols =
                      [c \in Columns(stmt.table) |->
                         IF c \in DOMAIN stmt.sets THEN stmt.sets[c] ELSE rows[i].cols[c]]]
              ELSE rows[i]]
      [] stmt.kind = "delete" -> Without(rows, stmt.id)
      [] stmt.kind = "toggle" ->
           [i \in 1..Len(rows) |->
              IF rows[i].id = stmt.id
              THEN [rows[i] EXCEPT !.cols["hidden"] =
                      IF rows[i].cols["hidden"] = Num(0) THEN Num(1) ELSE Num(0)]
              ELSE rows[i]]

\* the statement at position i of the pending ones is taken out
Remove(q, i) == SubSeq(q, 1, i - 1) \o SubSeq(q, i + 1, Len(q))

(***************************************************************************)
(* contact.js (content routes): create, update, delete, toggle             *)
(***************************************************************************)
\* a content request can arrive
CanArrive == Quiet /\ Alive

\* the handler has handed its statements to the database and returned
Issue(stmts) ==
    /\ started < MaxRequests
    /\ dbPending' = dbPending \o stmts
    /\ started' = started + 1
    /\ UNCHANGED resp

\* router.post(`/${tableName}`, requireAuth, ...), up to the calls of db.run
Create(s, tableName, data) ==
    /\ CanArrive
    /\ LET rq == [op |-> "create"]
           validationError == validateInput(data, validationRules(tableName))
           id == RowId(nextId + 1)
       IN IF ~requireAuth(s)
          THEN /\ resp' = Reply(rq, 401, "Unauthorized")
               /\ UNCHANGED <<started, contentVars>>
          ELSE IF validationError # Null
          THEN /\ resp' = Reply(rq, 400, validationError)
               /\ UNCHANGED <<started, contentVars>>
          ELSE /\ nextId < MaxRows
               /\ nextId' = nextId + 1
               /\ Issue((IF hasFeatured(tableName, data)
                         THEN <<ClearStatement(tableName, Null)>> ELSE << >>)
                        \o <<InsertStatement(tableName, id, data)>>)
               /\ UNCHANGED tables
    /\ UNCHANGED <<settings, session, req, authVars>>

\* router.put(`/${tableName}/:id`, requireAuth, ...), up to the calls of db.run
Update(s, tableName, id, data) ==
    /\ CanArrive
    /\ LET rq == [op |-> "update"]
           validationError == validateInput(data, validationRules(tableName))
       IN IF ~requireAuth(s)
          THEN /\ resp' = Reply(rq, 401, "Unauthorized")
               /\ UNCHANGED <<started, dbPending>>
          ELSE IF validationError # Null
          THEN /\ resp' = Reply(rq, 400, validationError)
               /\ UNCHANGED <<started, dbPending>>
          ELSE Issue((IF hasFeatured(tableName, data)
                      THEN <<ClearStatement(tableName, id)>> ELSE << >>)
                     \o <<UpdateStatement(tableName, id, data)>>)
    /\ UNCHANGED <<settings, session, req, authVars, tables, nextId>>

\* router.delete(`/${tableName}/:id`, requireAuth, ...), up to the call of db.run
Delete(s, tableName, id) ==
    /\ CanArrive
    /\ IF ~requireAuth(s)
       THEN /\ resp' = Reply([op |-> "delete"], 401, "Unauthorized")
            /\ UNCHANGED <<started, dbPending>>
       ELSE Issue(<<DeleteStatement(tableName, id)>>)
    /\ UNCHANGED <<settings, session, req, authVars, tables, nextId>>

\* router.patch(`/${tableName}/:id/toggle`, requireAuth, ...), up to the call of db.run
ToggleHidden(s, tableName, id) ==
    /\ CanArrive
    /\ IF ~requireAuth(s)
       THEN /\ resp' = Reply([op |-> "toggleHidden"], 401, "Unauthorized")
            /\ UNCHANGED <<started, dbPending>>
       ELSE Issue(<<ToggleStatement(tableName, id)>>)
    /\ UNCHANGED <<settings, session, req, authVars, tables, nextId>>

\* the database runs one of the statements handed to it (in the default mode of
\* the driver in no particular order), or fails to, and calls the callback:
\* the callback of a clear only logs, the others answer the request
DbRun(i, ok) ==
    /\ Quiet /\ Alive
    /\ i \in 1..Len(dbPending)
    /\ LET stmt == dbPending[i]
           done == ok /\ WellFormed(stmt)
       IN /\ dbPending' = Remove(dbPending, i)
          /\ tables' = IF done
                       THEN [tables EXCEPT ![stmt.table] = Execute(stmt, @)]
                       ELSE tables
          /\ resp' = IF stmt.kind = "clear" THEN resp
                     ELSE IF done THEN Reply(stmt, 200, "success")
                     ELSE Reply(stmt, 500, "error")
    /\ UNCHANGED <<settings, session, req, started, authVars, nextId>>

(***************************************************************************)
(* contact.js (content routes): list and get                               *)
(***************************************************************************)
\* WHERE hidden = 0, with hidden shown  (C14 must notice it)
VisibleAll(row) == TRUE

\* WHERE hidden = 0
Visible(row) == row.cols["hidden"] = Num(0)

RECURSIVE SelectWhere(_, _)
SelectWhere(rows, showHidden) ==
    IF rows = << >> THEN << >>
    ELSE (IF showHidden \/ Visible(Head(rows)) THEN <<Head(rows)>> ELSE << >>)
         \o SelectWhere(Tail(rows), showHidden)

\* the place of an order_num in SQLite's order: NULL, then the numbers by value,
\* then text (two texts are taken as equal: the payloads here hold at most one)
OrderRank(value) ==
    CASE value.t \in {"null", "undefined"} -> <<0, 0>>
      [] value.t = "number" -> <<1, value.n>>
      [] OTHER -> <<2, 0>>

OrderBefore(a, b) ==
    LET x == OrderRank(a.cols["order_num"])
        y == OrderRank(b.cols["order_num"])
    IN x[1] < y[1] \/ (x[1] = y[1] /\ x[2] < y[2])

\* the row goes behind every row that is not after it (created_at breaks ties)
RECURSIVE InsertOrdered(_, _)
InsertOrdered(sorted, row) ==
    IF sorted = << >> THEN <<row>>
    ELSE IF OrderBefore(row, Head(sorted)) THEN <<row>> \o sorted
    ELSE <<Head(sorted)>> \o InsertOrdered(Tail(sorted), row)

RECURSIVE SortRows(_)
SortRows(rows) ==
    IF rows = << >> THEN << >>
    ELSE InsertOrdered(SortRows(SubSeq(rows, 1, Len(rows) - 1)), rows[Len(rows)])

\* ORDER BY order_num, created_at  or  ORDER BY created_at
OrderBy(tableName, rows) ==
    IF tableName \in {"experience", "education", "projects", "blog"}
    THEN SortRows(rows) ELSE rows

\* if (row[key] && typeof row[key] === 'string') row[key] = JSON.parse(row[key]):
\* the row afterwards, and whether JSON.parse threw
ParseField(row, key) ==
    IF key \in DOMAIN row.cols /\ IsTruthy(row.cols[key]) /\ row.cols[key].t = "string"
    THEN LET parsed == JSONparse(row.cols[key].s)
         IN IF parsed.ok
            THEN [row |-> [row EXCEPT !.cols[key] = parsed.value], threw |-> FALSE]
            ELSE [row |-> row, threw |-> TRUE]
    ELSE [row |-> row, threw |-> FALSE]

\* the two parse lines of the routes: tags, then skills unless tags threw
ParseRow(row) ==
    LET first == ParseField(row, "tags")
    IN IF first.threw THEN first ELSE ParseField(first.row, "skills")

\* try { rows.forEach(row => {...}) } catch { }: the rows behind one whose text
\* does not parse are left as the database gave them
RECURSIVE ParseRows(_, _)
ParseRows(rows, i) ==
    IF i > Len(rows) THEN rows
    ELSE LET r == ParseRow(rows[i])
         IN IF r.threw THEN rows
            ELSE ParseRows([rows EXCEPT ![i] = r.row], i + 1)

\* router.get(`/${tableName}`, ...): the read of the database and its callback
List(s, tableName, ok) ==
    /\ CanArrive
    /\ LET rq == [op |-> "list"]
           showHidden == session[s].isAdmin
           rows == OrderBy(tableName, SelectWhere(tables[tableName], showHidden))
       IN resp' = IF ~ok THEN Reply(rq, 500, "error")
                  ELSE [Reply(rq, 200, tableName) EXCEPT !.shown = ParseRows(rows, 1)]
    /\ UNCHANGED <<settings, session, req, started, authVars, contentVars>>

\* router.get(`/${tableName}/:id`, ...): the read of the database and its callback
Get(tableName, id, ok) ==
    /\ CanArrive
    /\ LET rq == [op |-> "get"]
           found == {i \in 1..Len(tables[tableName]) : tables[tableName][i].id = id}
       IN resp' = IF ~ok THEN Reply(rq, 500, "error")
                  ELSE IF found = {} THEN Reply(rq, 404, "Not found")
                  ELSE [Reply(rq, 200, tableName) EXCEPT
                          !.shown = <<ParseRow(tables[tableName][CHOOSE i \in found : TRUE]).row>>]
    /\ UNCHANGED <<settings, session, req, started, authVars, contentVars>>

(***************************************************************************)
(* The auth specification: auth.js, with the settings routes               *)
(***************************************************************************)
PasswordInputs == Passwords \cup {Null}
NewUsernames == {" Admin ", "Admin", "ab", "a b c"}
SettingKeys == SENSITIVE_KEYS \cup {"hero_name"}

SettingValues(key) ==
    CASE key = "admin_username" -> {"Admin", ""}
      [] key = "admin_password_hash" -> {Hash("password1")}
      [] key = "smtp_user" -> {"me@gmail.com"}
      [] key = "smtp_app_password" -> {"apppass2", ""}
      [] key = "recovery_email" -> {"rescue@gmail.com"}
      [] OTHER -> {"Bee"}

\* the rows db.js inserts into an empty settings table (one of them kept here)
DefaultSettings == [k \in {"hero_name"} |-> "Bishwash"]

NoContent == [t \in Tables |-> << >>]

\* the settings an earlier run of the process has left in the database
ConfiguredSettings ==
    [k \in {"hero_name", "admin_password_hash", "admin_username"} |->
       CASE k = "admin_password_hash" -> Hash("changeme")
         [] k = "admin_username" -> "admin"
         [] OTHER -> "Bishwash"]

\* a start of the process, on a new database or on one an earlier run has used:
\* auth.js is loaded, initializeCredentials() has been called and waits for its first read
Init ==
    /\ settings \in {DefaultSettings, ConfiguredSettings}
    /\ hashedPassword = Null
    /\ resetTokens = <<>>
    /\ nextToken = 0
    /\ now = 0
    /\ session = [s \in Sessions |-> Anonymous]
    /\ boot = [pc |-> "readHash", value |-> Null]
    /\ env \in Envs
    /\ req = [r \in Slots |-> Idle]
    /\ resp = NoResponse
    /\ started = 0
    /\ tables = NoContent
    /\ dbPending = << >>
    /\ nextId = 0

Next ==
    \/ Observe
    \/ BootReadHash
    \/ BootHashed
    \/ \E ok \in BOOLEAN : BootPersistHash(ok)
    \/ BootReadUsername
    \/ \E ok \in BOOLEAN : BootPersistUsername(ok)
    \/ Tick
    \/ Sweep
    \/ \E r \in Slots, s \in Sessions, u \in Usernames, p \in PasswordInputs :
          Login(r, s, u, p)
    \/ \E r \in Slots : LoginCompared(r)
    \/ \E r \in Slots, s \in Sessions : Logout(r, s)
    \/ \E r \in Slots, s \in Sessions, c \in PasswordInputs, n \in PasswordInputs :
          ChangePassword(r, s, c, n)
    \/ \E r \in Slots : ChangePasswordHashed(r)
    \/ \E r \in Slots, ok \in BOOLEAN : ChangePasswordPersisted(r, ok)
    \/ \E r \in Slots, s \in Sessions, c \in Passwords, n \in NewUsernames :
          ChangeUsername(r, s, c, n)
    \/ \E r \in Slots, ok \in BOOLEAN : ChangeUsernamePersisted(r, ok)
    \/ \E r \in Slots, u \in Usernames \cup {Null}, c \in Codes : RequestReset(r, u, c)
    \/ \E r \in Slots, ok \in BOOLEAN : RequestResetMailed(r, ok)
    \/ \E r \in Slots, c \in Codes \cup {Null}, n \in PasswordInputs : ResetPassword(r, c, n)
    \/ \E r \in Slots : ResetPasswordHashed(r)
    \/ \E r \in Slots, ok \in BOOLEAN : ResetPasswordPersisted(r, ok)
    \/ \E r \in Slots, s \in Sessions : GetSettings(r, s)
    \/ \E r \in Slots, s \in Sessions : GetSettingsSecure(r, s)
    \/ \E r \in Slots, s \in Sessions, k \in SettingKeys :
          \E v \in SettingValues(k) : PutSetting(r, s, k, v)
    \/ \E r \in Slots, ok \in BOOLEAN : PutSettingDone(r, ok)

Spec == Init /\ [][Next]_vars


(***************************************************************************)
(* The content specification: the content routes and the settings routes   *)
(* of contact.js, on a server that has started                             *)
(***************************************************************************)
Payloads(tableName) ==
    CASE tableName = "projects" ->
           { [title |-> Str("P"), featured |-> Num(1)],
             [title |-> Str("Q"), featured |-> Num(0), tags |-> Arr(<<"a", "b">>)],
             [title |-> Str("R"), featured |-> Num(1), id |-> Str("evil"),
              created_at |-> Str("x")],
             [featured |-> Num(1)],
             [title |-> Str("P"), featured |-> Str("yes")] }
      [] tableName = "blog" ->
           { [title |-> Str("B"), content |-> Str("text"), featured |-> Num(1),
              tags |-> Arr(<< >>)],
             [title |-> Str("B"), featured |-> Num(1)] }
      [] tableName = "skills" ->
           { [category |-> Str("Said"), skills |-> Arr(<<"a,b", "say \"hi\"", "c\\d">>)],
             [category |-> Str("Text"), skills |-> Str("oops")],
             [skills |-> Arr(<<"js">>)] }
      [] tableName = "experience" ->
           { [company |-> Str("C"), role |-> Str("dev"), period |-> Str("2020"),
              hidden |-> Num(1)],
             [company |-> Str(" "), role |-> Str("dev"), period |-> Str("2020")],
             [company |-> Str("C"), role |-> Str("dev"), period |-> Str("2020"),
              badge |-> Str("a badge of 21 letters")] }
      [] tableName = "education" ->
           { [institution |-> Str("U"), degree |-> Str("BSc"), period |-> Str("2016")],
             [institution |-> Str("V"), degree |-> Str("MSc"), period |-> Str("2018"),
              hidden |-> Num(2)],
             [id |-> Str("evil")] }

RowIds == {RowId(n) : n \in 1..MaxRows}

ContentSettingKeys == {"admin_password_hash", "smtp_app_password", "hero_name"}

\* a server that has started on a database an administrator has configured;
\* the session is an administrator's or a visitor's
InitContent ==
    /\ settings = [k \in SENSITIVE_KEYS \cup {"hero_name"} |->
                     CASE k = "admin_password_hash" -> Hash("changeme")
                       [] k = "admin_username" -> "admin"
                       [] k = "smtp_user" -> "me@gmail.com"
                       [] k = "smtp_app_password" -> "apppass"
                       [] k = "recovery_email" -> "rescue@gmail.com"
                       [] OTHER -> "Bishwash"]
    /\ hashedPassword = Hash("changeme")
    /\ resetTokens = << >>
    /\ nextToken = 0
    /\ now = 0
    /\ session \in [Sessions -> {Anonymous, [isAdmin |-> TRUE, username |-> "admin"]}]
    /\ boot = [pc |-> "done", value |-> Null]
    /\ env = CHOOSE e \in Envs : e.ADMIN_PASSWORD = Null
    /\ req = [r \in Slots |-> Idle]
    /\ resp = NoResponse
    /\ started = 0
    /\ tables = NoContent
    /\ dbPending = << >>
    /\ nextId = 0

NextContent ==
    \/ Observe
    \/ \E s \in Sessions, t \in Tables : \E data \in Payloads(t) : Create(s, t, data)
    \/ \E s \in Sessions, t \in Tables, id \in RowIds :
          \E data \in Payloads(t) : Update(s, t, id, data)
    \/ \E s \in Sessions, t \in Tables, id \in RowIds : Delete(s, t, id)
    \/ \E s \in Sessions, t \in Tables, id \in RowIds : ToggleHidden(s, t, id)
    \/ \E i \in 1..(2 * MaxRequests), ok \in BOOLEAN : DbRun(i, ok)
    \/ \E s \in Sessions, t \in Tables, ok \in BOOLEAN : List(s, t, ok)
    \/ \E t \in Tables, id \in RowIds, ok \in BOOLEAN : Get(t, id, ok)
    \/ \E r \in Slots, s \in Sessions : Logout(r, s)
    \/ \E r \in Slots, s \in Sessions : GetSettings(r, s)
    \/ \E r \in Slots, s \in Sessions : GetSettingsSecure(r, s)
    \/ \E r \in Slots, s \in Sessions, k \in ContentSettingKeys :
          \E v \in SettingValues(k) : PutSetting(r, s, k, v)
    \/ \E r \in Slots, ok \in BOOLEAN : PutSettingDone(r, ok)

SpecContent == InitContent /\ [][NextContent]_vars

(***************************************************************************)
(* Properties                                                              *)
(***************************************************************************)
StoredHash == getDbSetting("admin_password_hash")

FeaturedRows(tableName) ==
    {i \in 1..Len(tables[tableName]) : tables[tableName][i].cols["featured"] = Num(1)}

\* C1: in projects and in blog at most one row has featured = 1, at every point at
\* which the table can be read
C1_AtMostOneFeatured ==
    \A tableName \in {"projects", "blog"} : Cardinality(FeaturedRows(tableName)) <= 1

RejectedUnchanged ==
    /\ req' = req
    /\ hashedPassword' = hashedPassword
    /\ StoredHash' = StoredHash

\* no token of the registry that carries the code is still unused
CodeSpent(resetCode) ==
    \A i \in 1..Len(resetTokens) :
        resetTokens[i].code = resetCode => resetTokens[i].used

\* C2: a reset code is used at most once. A reset that succeeds leaves its token
\* marked used, a used token stays used, and a reset-password call with a code that
\* no unused token carries fails with "Invalid or expired reset code" and leaves
\* the active hash and the stored hash as they are
C2_CodeUsedOnce ==
    [][ /\ \A r \in Slots, c \in Codes, n \in Passwords :
             (ResetPassword(r, c, n) /\ Len(n) >= 8 /\ CodeSpent(c))
             => /\ resp'.status = 401
                /\ resp'.body = "Invalid or expired reset code"
                /\ RejectedUnchanged
        /\ \A r \in Slots :
             ResetPasswordPersisted(r, TRUE)
             => \E i \in 1..Len(resetTokens') :
                   /\ resetTokens'[i].key = req[r].foundToken.key
                   /\ resetTokens'[i].used
        /\ \A i \in 1..Len(resetTokens), j \in 1..Len(resetTokens') :
             (resetTokens[i].used /\ resetTokens'[j].key = resetTokens[i].key)
             => resetTokens'[j].used
      ]_vars

\* a second call with the code of a token that a completed reset has used was refused
C2_Witness ==
    /\ resp.op = "resetPassword"
    /\ resp.status = 401
    /\ \E i \in 1..Len(resetTokens) :
          /\ resetTokens[i].code = resp.code
          /\ resetTokens[i].used
          /\ resetTokens[i].expiresAt > now
    /\ CodeSpent(resp.code)
    /\ StoredHash = hashedPassword

\* every token of the registry that carries the code has reached its expiresAt
CodeExpired(resetCode) ==
    \A i \in 1..Len(resetTokens) :
        resetTokens[i].code = resetCode => now >= resetTokens[i].expiresAt

\* C3: a reset-password call made at or after the expiresAt of the token issued with
\* the code fails with "Invalid or expired reset code" and leaves the active hash and
\* the stored hash as they are, whether the token is still in the registry or not
C3_ExpiredCodeRefused ==
    [][ \A r \in Slots, c \in Codes, n \in Passwords :
          (ResetPassword(r, c, n) /\ Len(n) >= 8 /\ CodeExpired(c))
          => /\ resp'.status = 401
             /\ resp'.body = "Invalid or expired reset code"
             /\ RejectedUnchanged
      ]_vars

\* a call with the code of an unused token, made exactly at its expiresAt, was refused
C3_Witness ==
    /\ resp.op = "resetPassword"
    /\ resp.status = 401
    /\ \E i \in 1..Len(resetTokens) :
          /\ resetTokens[i].code = resp.code
          /\ ~resetTokens[i].used
          /\ resetTokens[i].expiresAt = now
    /\ CodeExpired(resp.code)

\* C4: what the public settings read returns holds none of the five credential and
\* mail keys and holds every other stored key with its stored value
C4_PublicSettingsFiltered ==
    resp.op = "getSettings" =>
        /\ DOMAIN resp.shown \cap
             {"admin_password_hash", "admin_username", "smtp_user", "smtp_app_password",
              "recovery_email"} = {}
        /\ \A k \in DOMAIN settings :
             k \notin {"admin_password_hash", "admin_username", "smtp_user",
                       "smtp_app_password", "recovery_email"}
             => k \in DOMAIN resp.shown /\ resp.shown[k] = settings[k]

\* a public read of a store that holds all five keys and a changed public value
C4_Witness ==
    /\ resp.op = "getSettings"
    /\ SENSITIVE_KEYS \subseteq DOMAIN settings
    /\ settings["hero_name"] = "Bee"
    /\ settings["smtp_app_password"] = "apppass2"
    /\ resp.shown["hero_name"] = "Bee"

\* the step is the arrival of a request that writes content or a setting
MutatingArrival(s) ==
    \/ \E t \in Tables : \E data \in Payloads(t) : Create(s, t, data)
    \/ \E t \in Tables, id \in RowIds : \E data \in Payloads(t) : Update(s, t, id, data)
    \/ \E t \in Tables, id \in RowIds : Delete(s, t, id)
    \/ \E t \in Tables, id \in RowIds : ToggleHidden(s, t, id)
    \/ \E r \in Slots, k \in ContentSettingKeys :
          \E v \in SettingValues(k) : PutSetting(r, s, k, v)

\* C5: a create, update, delete or toggle on any content table, or a settings write,
\* on a session that is not an administrator's is answered 401 Unauthorized, hands
\* no statement to the database and leaves every table and the settings as they are
C5_UnauthorizedRejected ==
    [][ \A s \in Sessions :
          (~session[s].isAdmin /\ MutatingArrival(s))
          => /\ resp'.status = 401
             /\ resp'.body = "Unauthorized"
             /\ tables' = tables
             /\ settings' = settings
             /\ dbPending' = dbPending
             /\ req' = req
      ]_vars

\* a content write was refused on a database that holds a row
C5_Witness ==
    /\ resp.status = 401
    /\ resp.op \in {"create", "update", "delete", "toggleHidden"}
    /\ \E t \in Tables : tables[t] # << >>
    /\ \A s \in Sessions : ~session[s].isAdmin

\* C6: a settings write with key admin_password_hash leaves the settings as they are
\* and, on an administrator's session, is answered 403; and the stored
\* admin_password_hash changes only in the startup write, in the write of
\* change-password and in the write of reset-password
C6_HashNotWritable ==
    [][ /\ \A r \in Slots, s \in Sessions :
             \A v \in SettingValues("admin_password_hash") :
                PutSetting(r, s, "admin_password_hash", v)
                => /\ settings' = settings
                   /\ req' = req
                   /\ resp'.status = IF session[s].isAdmin THEN 403 ELSE 401
        /\ StoredHash' # StoredHash
           => \/ BootPersistHash(TRUE)
              \/ \E r \in Slots : ChangePasswordPersisted(r, TRUE)
              \/ \E r \in Slots : ResetPasswordPersisted(r, TRUE)
      ]_vars

\* an administrator's write of the hash key was refused
C6_Witness ==
    /\ resp.op = "putSetting"
    /\ resp.status = 403
    /\ StoredHash # Null
    /\ StoredHash # Hash("password1")

\* C7: a login sets the session to authenticated exactly when the username is the
\* resolved admin username, letter for letter, and the password verifies against
\* the active hash; every other login is answered 401 "Invalid credentials" and
\* leaves the session as it is
C7_LoginIffCredentials ==
    [][ /\ \A r \in Slots, s \in Sessions, u \in Usernames, p \in PasswordInputs :
             (Login(r, s, u, p) /\ u # getAdminUsername)
             => /\ resp'.status = 401
                /\ resp'.body = "Invalid credentials"
                /\ session' = session
                /\ req' = req
        /\ \A r \in Slots :
             LoginCompared(r)
             => IF req[r].username = req[r].adminUsername
                   /\ req[r].hash = Hash(req[r].password)
                THEN /\ resp'.status = 200
                     /\ session'[req[r].s].isAdmin
                ELSE /\ resp'.status = 401
                     /\ resp'.body = "Invalid credentials"
                     /\ session' = session
      ]_vars

\* C8: a change-password fails and leaves the active hash and the stored hash as
\* they are when the session is not authenticated, when the new password has fewer
\* than 8 characters, when it equals the current password, and when the current
\* password does not verify against the active hash
C8_ChangePasswordRefused ==
    [][ /\ \A r \in Slots, s \in Sessions, c \in PasswordInputs, n \in PasswordInputs :
             (/\ ChangePassword(r, s, c, n)
              /\ (~session[s].isAdmin \/ Len(n) < 8 \/ n = c))
             => /\ resp'.status \in {400, 401}
                /\ RejectedUnchanged
        /\ \A r \in Slots :
             (/\ ChangePasswordHashed(r)
              /\ req[r].hash # Hash(req[r].currentPassword))
             => /\ resp'.status \in {401, 500}
                /\ req'[r] = Idle
                /\ hashedPassword' = hashedPassword
                /\ StoredHash' = StoredHash
      ]_vars

\* an administrator's change-password with a wrong current password was refused
C8_Witness ==
    /\ resp.op = "changePassword"
    /\ resp.status = 401
    /\ resp.body = "Current password is incorrect"
    /\ \E s \in Sessions : session[s].isAdmin
    /\ hashedPassword = StoredHash

\* C9: when a reset-password succeeds, at its completion the active hash and the
\* stored hash are both the hash of its new password and its token is marked used
C9_ResetTakesEffect ==
    [][ \A r \in Slots :
          ResetPasswordPersisted(r, TRUE)
          => /\ hashedPassword' = Hash(req[r].newPassword)
             /\ StoredHash' = Hash(req[r].newPassword)
             /\ \E i \in 1..Len(resetTokens') :
                   /\ resetTokens'[i].key = req[r].foundToken.key
                   /\ resetTokens'[i].used
      ]_vars

\* C10: a reset request with a username that is not the admin username is answered
\* with the generic message, puts no token into the registry and leaves no handler
\* behind that could send a mail
C10_UnknownUserNoToken ==
    [][ \A r \in Slots, u \in Usernames, c \in Codes :
          (RequestReset(r, u, c) /\ u # getAdminUsername)
          => /\ resp'.status = 200
             /\ resp'.body = GenericResetMessage
             /\ resp'.mail = Null
             /\ resetTokens' = resetTokens
             /\ nextToken' = nextToken
             /\ req' = req
      ]_vars

\* the generic answer was given by a server whose mail is configured
C10_Witness ==
    /\ resp.op = "requestReset"
    /\ resp.status = 200
    /\ resp.body = GenericResetMessage
    /\ getSmtpConfig # Null
    /\ boot.pc = "done"

\* the statement is a create's or an update's write of featured = 1 to a row
\* (for an update: to a row the table holds)
FeaturingWrite(stmt) ==
    /\ stmt.kind \in {"insert", "update"}
    /\ stmt.table \in {"projects", "blog"}
    /\ "featured" \in DOMAIN stmt.sets
    /\ stmt.sets["featured"] = Num(1)
    /\ stmt.kind = "update" => \E j \in 1..Len(tables[stmt.table]) :
                                  tables[stmt.table][j].id = stmt.id

\* C11: when a create or an update on projects or blog that sets featured = 1 on a
\* row succeeds, that row has featured = 1 and every other row of the table has not
C11_FeaturedWins ==
    [][ \A i \in 1..(2 * MaxRequests) :
          (/\ DbRun(i, TRUE)
           /\ i <= Len(dbPending)
           /\ FeaturingWrite(dbPending[i]))
          => LET stmt == dbPending[i]
                 rows == tables'[stmt.table]
             IN \A j \in 1..Len(rows) :
                   (rows[j].cols["featured"] = Num(1)) <=> (rows[j].id = stmt.id)
      ]_vars

\* the sequences of strings a payload of the content specification writes
TagLists == {<<"a", "b">>, << >>, <<"a,b", "say \"hi\"", "c\\d">>}

\* the row of the table with the id of the row that was returned
StoredRow(tableName, id) ==
    LET i == CHOOSE j \in 1..Len(tables[tableName]) : tables[tableName][j].id = id
    IN tables[tableName][i]

\* C12: a row whose tags or skills was written as a sequence of strings by create or
\* update is returned by list and by get with that sequence in the field
C12_TagsRoundTrip ==
    (resp.op \in {"list", "get"} /\ resp.status = 200)
    => \A i \in 1..Len(resp.shown) :
          \A key \in {"tags", "skills"} \cap DOMAIN resp.shown[i].cols :
             \A q \in TagLists :
                StoredRow(resp.body, resp.shown[i].id).cols[key] = Bind(key, Arr(q))
                => resp.shown[i].cols[key] = Arr(q)

\* C13: when a toggle of a row has run, a second toggle of the same id gives the
\* row the hidden value it had before the first
C13_ToggleTwiceRestores ==
    [][ \A i \in 1..(2 * MaxRequests) :
          (/\ DbRun(i, TRUE)
           /\ i <= Len(dbPending)
           /\ dbPending[i].kind = "toggle")
          => LET stmt == dbPending[i]
                 before == tables[stmt.table]
                 twice == Execute(stmt, tables'[stmt.table])
             IN \A j \in 1..Len(before) :
                   before[j].id = stmt.id
                   => twice[j].cols["hidden"] = before[j].cols["hidden"]
      ]_vars

\* C14: a list without an administrator's session returns the rows of the table
\* whose hidden is 0, each once, and no other row; a list with an administrator's
\* session returns every row of the table, each once
C14_ListHidesHidden ==
    [][ \A s \in Sessions, t \in Tables :
          List(s, t, TRUE)
          => LET returned == {resp'.shown[i].id : i \in 1..Len(resp'.shown)}
                 stored == {i \in 1..Len(tables[t]) :
                              session[s].isAdmin \/ tables[t][i].cols["hidden"] = Num(0)}
             IN /\ resp'.status = 200
                /\ returned = {tables[t][i].id : i \in stored}
                /\ Len(resp'.shown) = Cardinality(stored)
                /\ ~session[s].isAdmin
                   => \A i \in 1..Len(resp'.shown) :
                         resp'.shown[i].cols["hidden"] = Num(0)
      ]_vars

\* a visitor's list of a table whose only row is hidden came back empty
C14_Witness ==
    /\ resp.op = "list"
    /\ resp.status = 200
    /\ resp.shown = << >>
    /\ \A s \in Sessions : ~session[s].isAdmin
    /\ Len(tables[resp.body]) = 1
    /\ tables[resp.body][1].cols["hidden"] = Num(1)

\* C15: the administrator's settings read, on an administrator's session, returns
\* every stored key but admin_password_hash, with the stored value, except that a
\* non-empty smtp_app_password is returned as the mask and not as its value; on any
\* other session it is answered 401 Unauthorized and returns no settings
C15_AdminSettingsMasked ==
    [][ \A r \in Slots, s \in Sessions :
          GetSettingsSecure(r, s)
          => IF session[s].isAdmin
             THEN /\ resp'.status = 200
                  /\ DOMAIN resp'.shown = (DOMAIN settings) \ {"admin_password_hash"}
                  /\ \A k \in DOMAIN resp'.shown :
                        IF k = "smtp_app_password" /\ settings[k] # ""
                        THEN resp'.shown[k] = Mask /\ resp'.shown[k] # settings[k]
                        ELSE resp'.shown[k] = settings[k]
             ELSE /\ resp'.status = 401
                  /\ resp'.body = "Unauthorized"
                  /\ resp'.shown = Null
      ]_vars

\* an administrator has read the settings of a store that holds a hash and an SMTP
\* password set through the settings write, and was shown the mask
C15_Witness ==
    /\ resp.op = "getSettingsSecure"
    /\ resp.status = 200
    /\ "admin_password_hash" \in DOMAIN settings
    /\ settings["smtp_app_password"] = "apppass2"
    /\ resp.shown["smtp_app_password"] = Mask
    /\ resp.shown["smtp_user"] = settings["smtp_user"]

\* the hash startup derives from the environment when the store holds none
EnvHash ==
    IF ~Truthy(env.ADMIN_PASSWORD) THEN Hash("changeme")
    ELSE IF IsHashFormat(env.ADMIN_PASSWORD) THEN env.ADMIN_PASSWORD
    ELSE Hash(env.ADMIN_PASSWORD)

\* C16: a start that finds admin_password_hash in the store makes it the active hash
\* and goes on without a write of it, whatever the environment holds; a start that
\* finds none persists the hash derived from the environment; and startup writes
\* the key only while the store holds none, so that a stored hash (the one of a
\* change-password or a reset-password among them) is what every later start adopts
C16_StoredHashWins ==
    [][ /\ (BootReadHash /\ Truthy(StoredHash))
           => /\ hashedPassword' = StoredHash
              /\ settings' = settings
              /\ boot'.pc = "readUsername"
        /\ (BootReadHash /\ ~Truthy(StoredHash))
           => boot'.pc \in {"hashing", "persistHash"}
        /\ (boot.pc \in {"readUsername", "persistUsername", "done"})
           => boot'.pc \in {"readUsername", "persistUsername", "done", "dead"}
        /\ BootPersistHash(TRUE)
           => /\ StoredHash' = EnvHash
              /\ ~Truthy(StoredHash)
        /\ Truthy(StoredHash) => Truthy(StoredHash')
      ]_vars

\* C17: no login, change-password or change-username is verified against an
\* undefined hash: the hash a request hands to the comparison is always a hash
C17_HashAlwaysDefined ==
    \A r \in Slots :
        req[r].op \in {"login", "changePassword", "changeUsername"}
        => req[r].hash # Null

StoredUsername == getDbSetting("admin_username")

Whitelisted(tableName, data) ==
    [key \in (DOMAIN data) \cap allowedColumns(tableName) |-> data[key]]

\* the statement writes the whitelisted keys of the payload, each with its value
WritesWhitelisted(stmt, tableName, data) ==
    /\ DOMAIN stmt.sets = (DOMAIN data) \cap allowedColumns(tableName)
    /\ \A key \in DOMAIN stmt.sets : stmt.sets[key] = Bind(key, data[key])
    /\ WellFormed(stmt)

\* C19: a create or an update that passes the gate and the validation writes
\* exactly the payload keys of the whitelist (a create also the id the server
\* made); a key outside it, id among them, changes no stored column, is not what
\* a validation error is about and leaves the statement well formed
C19_OnlyWhitelistWritten ==
    [][ /\ dbPending' # dbPending /\ Len(dbPending') > Len(dbPending)
           => LET stmt == dbPending'[Len(dbPending')]
              IN /\ \A s \in Sessions, t \in Tables : \A data \in Payloads(t) :
                      Create(s, t, data)
                      => /\ stmt.kind = "insert"
                         /\ stmt.id = RowId(nextId + 1)
                         /\ WritesWhitelisted(stmt, t, data)
                 /\ \A s \in Sessions, t \in Tables, id \in RowIds :
                      \A data \in Payloads(t) :
                         Update(s, t, id, data)
                         => /\ stmt.kind = "update"
                            /\ stmt.id = id
                            /\ WritesWhitelisted(stmt, t, data)
        /\ (resp' # resp /\ resp'.status = 400 /\ resp'.op \in {"create", "update"})
           => \A s \in Sessions, t \in Tables, id \in RowIds : \A data \in Payloads(t) :
                 (Create(s, t, data) \/ Update(s, t, id, data))
                 => validateInput(Whitelisted(t, data), validationRules(t)) = resp'.body
        /\ \A i \in 1..(2 * MaxRequests) :
             (i <= Len(dbPending) /\ dbPending[i].kind \in {"insert", "update"}
              /\ DbRun(i, TRUE))
             => LET stmt == dbPending[i]
                    before == tables[stmt.table]
                    after == tables'[stmt.table]
                IN /\ resp'.status = 200
                   /\ \A j \in 1..Len(before) :
                        /\ after[j].id = before[j].id
                        /\ \A c \in Columns(stmt.table) :
                             after[j].cols[c] =
                               IF before[j].id = stmt.id /\ stmt.kind = "update"
                                  /\ c \in DOMAIN stmt.sets
                               THEN stmt.sets[c] ELSE before[j].cols[c]
                   /\ IF stmt.kind = "update" THEN Len(after) = Len(before)
                      ELSE /\ Len(after) = Len(before) + 1
                           /\ after[Len(after)].id = stmt.id
                           /\ \A c \in Columns(stmt.table) :
                                after[Len(after)].cols[c] =
                                  IF c \in DOMAIN stmt.sets THEN stmt.sets[c]
                                  ELSE ColumnDefault(stmt.table, c)
      ]_vars

\* a create whose payload held an id and a created_at of its own was answered 200,
\* and the row has the server's id and the payload's whitelisted values
C19_Witness ==
    /\ resp.op = "create"
    /\ resp.status = 200
    /\ \E j \in 1..Len(tables["projects"]) :
          /\ tables["projects"][j].cols["title"] = Str("R")
          /\ tables["projects"][j].id \in RowIds
          /\ tables["projects"][j].cols["featured"] = Num(1)

\* the payload breaks a rule of the table: a required field is missing, empty or
\* blank, or a field that is given (a value JavaScript takes as true) has another
\* type than its rule names or is a string longer than its rule allows
Violates(tableName, data) ==
    \E i \in 1..Len(validationRules(tableName)) :
        LET rule == validationRules(tableName)[i]
            given == rule.field \in DOMAIN data /\ IsTruthy(data[rule.field])
        IN \/ rule.required /\ ~given
           \/ rule.required /\ given /\ data[rule.field].t = "string"
                /\ Trim(data[rule.field].s) = ""
           \/ given /\ data[rule.field].t # rule.type
           \/ given /\ data[rule.field].t = "string" /\ rule.maxLength > 0
                /\ Len(data[rule.field].s) > rule.maxLength

InvalidPayloads == [t \in Tables |-> {data \in Payloads(t) : Violates(t, data)}]

C21_ResetAnswerUniform ==
    (resp.op = "requestReset" /\ resp.body # "Username is required")
    => /\ resp.status = 200
       /\ resp.body = GenericResetMessage

(***************************************************************************)
(* The reset specification: auth.js on a server that has started and has   *)
(* answered one reset request, whose token is in the registry              *)
(***************************************************************************)
InitReset ==
    /\ settings = ConfiguredSettings
    /\ hashedPassword = Hash("changeme")
    /\ resetTokens = << [key |-> 1, code |-> "AAAA1111", username |-> "admin",
                         createdAt |-> 0, expiresAt |-> TTL, used |-> FALSE] >>
    /\ nextToken = 1
    /\ now = 0
    /\ session = [s \in Sessions |-> Anonymous]
    /\ boot = [pc |-> "done", value |-> Null]
    /\ env \in Envs
    /\ req = [r \in Slots |-> Idle]
    /\ resp = NoResponse
    /\ started = 0
    /\ tables = NoContent
    /\ dbPending = << >>
    /\ nextId = 0

NextReset ==
    \/ Observe
    \/ Tick
    \/ Sweep
    \/ \E r \in Slots, s \in Sessions, u \in Usernames, p \in PasswordInputs :
          Login(r, s, u, p)
    \/ \E r \in Slots : LoginCompared(r)
    \/ \E r \in Slots, c \in Codes \cup {Null}, n \in PasswordInputs : ResetPassword(r, c, n)
    \/ \E r \in Slots : ResetPasswordHashed(r)
    \/ \E r \in Slots, ok \in BOOLEAN : ResetPasswordPersisted(r, ok)

SpecReset == InitReset /\ [][NextReset]_vars

\* C22: of the reset-password requests that carry the same live code at most one
\* changes the password: none completes its write with a token that another
\* request has already marked used
C22_OneResetPerCode ==
    [][ \A r \in Slots :
          ResetPasswordPersisted(r, TRUE)
          => ~\E i \in 1..Len(resetTokens) :
                 /\ resetTokens[i].key = req[r].foundToken.key
                 /\ resetTokens[i].used
      ]_vars

\* C23: a key that the sweep has removed from the registry never comes back: a key
\* that enters the registry is always one that has just been issued
C23_SweptKeyStaysOut ==
    [][ \A k \in KeysOf(resetTokens') :
          k \in KeysOf(resetTokens) \/ (k = nextToken' /\ nextToken' = nextToken + 1)
      ]_vars

\* C24: a run of the sweep removes the entries with expiresAt < now or used = true
\* and no other: every other entry stays as it is and in its place among those
\* that stay, so a live token is never removed and no used entry is left
C24_SweepExact ==
    [][ Sweep
        => LET keep == {i \in 1..Len(resetTokens) :
                          ~(resetTokens[i].expiresAt < now) /\ ~resetTokens[i].used}
           IN /\ Len(resetTokens') = Cardinality(keep)
              /\ \A i \in keep :
                   LET place == Cardinality({j \in keep : j <= i})
                   IN resetTokens'[place] = resetTokens[i]
              /\ \A i \in 1..Len(resetTokens) :
                   (~resetTokens[i].used /\ resetTokens[i].expiresAt > now)
                   => resetTokens[i].key \in KeysOf(resetTokens')
              /\ \A j \in 1..Len(resetTokens') : ~resetTokens'[j].used
      ]_vars

\* the sweep has removed the first token, which had expired, and has left the
\* second, which is live
C24_Witness ==
    /\ nextToken = 2
    /\ KeysOf(resetTokens) = {2}
    /\ ~resetTokens[1].used
    /\ resetTokens[1].expiresAt > now
    /\ \A r \in Slots : req[r] = Idle

\* C25: a failed write of admin_password_hash in change-password or in
\* reset-password leaves the password as it was: whenever no request that changes
\* the credential is in flight, the hash the process compares against is the
\* stored admin_password_hash
C25_ActiveHashIsStored ==
    (\A r \in Slots : req[r].op \notin {"changePassword", "resetPassword"})
    => hashedPassword = StoredHash

\* C26: the name that getAdminUsername resolves to changes only through a
\* change-username that succeeds; no other operation changes it, and in
\* particular not a write of the key admin_username through PUT /settings/:key
C26_OnlyChangeUsernameRenames ==
    [][ getAdminUsername' # getAdminUsername
        => \E r \in Slots : ChangeUsernamePersisted(r, TRUE)
      ]_vars

\* C27: a read of one row by its id does not return a hidden row to a caller
\* that is not authenticated, as a list does not: with no administrator's
\* session open, a row that came back has hidden = 0
C27_GetHidesHidden ==
    (resp.op = "get" /\ resp.status = 200 /\ \A s \in Sessions : ~session[s].isAdmin)
    => \A i \in 1..Len(resp.shown) : resp.shown[i].cols["hidden"] = Num(0)

\* C28: an update of an id that no row of the table has leaves every row as it
\* is, also when its payload sets featured = 1 on projects or on blog: no
\* statement of such an update changes a table
C28_UpdateOfNoRowChangesNothing ==
    [][ \A i \in 1..Len(dbPending) :
          ( /\ dbPending[i].op = "update"
            /\ \A j \in 1..Len(tables[dbPending[i].table]) :
                  tables[dbPending[i].table][j].id # dbPending[i].id
            /\ DbRun(i, TRUE) )
          => tables' = tables
      ]_vars

\* C29: when the clearing statement of a create or an update that sets
\* featured = 1 fails, the featured row is not written: with one such request
\* issued and its clearing statement failing, the write issued with it is not
\* left to run
C29_FailedClearStopsWrite ==
    [][ ( /\ started = 1
          /\ Len(dbPending) >= 1
          /\ dbPending[1].kind = "clear"
          /\ DbRun(1, FALSE) )
        => \A j \in 1..Len(dbPending') :
              ~( /\ dbPending'[j].kind \in {"insert", "update"}
                 /\ "featured" \in DOMAIN dbPending'[j].sets
                 /\ dbPending'[j].sets["featured"] = Num(1) )
      ]_vars

\* C30: in the answer to a list, every row whose stored tags or skills text is
\* a valid encoded array carries the decoded array, whether or not another row
\* of the result fails to decode
C30_ValidRowsDecoded ==
    (resp.op = "list" /\ resp.status = 200)
    => \A i \in 1..Len(resp.shown) :
          \A key \in {"tags", "skills"} \cap DOMAIN resp.shown[i].cols :
             LET stored == StoredRow(resp.body, resp.shown[i].id).cols[key]
             IN (/\ stored.t = "string"
                 /\ JSONparse(stored.s).ok
                 /\ JSONparse(stored.s).value.t = "array")
                => resp.shown[i].cols[key] = JSONparse(stored.s).value
====
